---- MODULE Spec2Model ----
(***************************************************************************)
(* The brainfuck assembler (bfas.py, assembler.py, registers.py) and the   *)
(* tape machine that runs its output (bfc.py).                              *)
(*                                                                         *)
(* A run of the model is the pipeline of the two programs: the parser      *)
(* turns a token stream into an instruction list and a label table,        *)
(* assemble turns them into brainfuck text written to the output file,     *)
(* compile turns the text into the machine's instruction array (one loop   *)
(* iteration per step), and BrainFuckMachine.run steps the machine.         *)
(*                                                                         *)
(* Text is a sequence of one-character strings, so that positions (the     *)
(* bfp of a machine instruction) are those of the generated file.          *)
(***************************************************************************)
EXTENDS Integers, Sequences, FiniteSets, TLC

\* ------------------------------------------------------------------ bounds

\* data_size of the machine: cells hold values in 0 .. DataSize - 1.
DataSize == 4
\* memory_size of the machine: the tape has cells 0 .. MemorySize - 1.
MemorySize == 16
\* The run is cut after this many instruction bodies have been dispatched.
MaxExec == 6
\* The longest programs of the input families (below DataSize: the prologue
\* loads the instruction count into a cell).
MaxInstr == 3

\* --------------------------------------------------------------- registers

IRegisters == <<"BJR", "FJR", "IC", "TR1", "TR2", "TR3", "TR4", "TR5">>
URegisters == <<"CRR", "PC", "R1", "R2", "R3", "R4", "R5">>
Registers == IRegisters \o URegisters

Range(s) == {s[i] : i \in 1..Len(s)}

\* check_reg / check_ureg raise ValueError when these are FALSE.
check_reg(reg) == reg \in Range(Registers)
check_ureg(reg) == reg \in Range(URegisters)

\* Registers.index(reg): the 0-based tape offset (reg is a register).
address_of(reg) == (CHOOSE i \in 1..Len(Registers) : Registers[i] = reg) - 1

\* ------------------------------------------------------------------- BFGen

\* Python's c * n: empty when n <= 0.
Rep(c, n) == [i \in 1..n |-> c]

ptr(src, dst) ==
    IF address_of(dst) > address_of(src)
    THEN Rep(">", address_of(dst) - address_of(src))
    ELSE Rep("<", address_of(src) - address_of(dst))

inc(val) == Rep("+", val)

\* A clear that clears nothing.
clr_None == <<>>

clr == <<"[", "-", "]">>

\* A transfer that only empties its source.
mv_Dropped(src, dst) == <<"[", "-", "]">>

mv(src, dst) == <<"[", "-">> \o ptr(src, dst) \o <<"+">> \o ptr(dst, src) \o <<"]">>

\* A copy that leaves the value in tmp instead of returning it to src.
cp_NoReturn(src, dst, tmp) ==
    <<"[", "-">> \o ptr(src, dst) \o <<"+">> \o ptr(dst, tmp) \o <<"+">>
        \o ptr(tmp, src) \o <<"]">>

cp(src, dst, tmp) ==
    <<"[", "-">> \o ptr(src, dst) \o <<"+">> \o ptr(dst, tmp) \o <<"+">>
        \o ptr(tmp, src) \o <<"]">> \o ptr(src, tmp) \o mv(tmp, src) \o ptr(tmp, src)

\* A set phase that writes the next block's index.
set_pc_Next(pc) == ptr("FJR", "PC") \o clr \o inc(pc + 1) \o ptr("PC", "FJR") \o <<"\n">>

set_pc(pc) == ptr("FJR", "PC") \o clr \o inc(pc) \o ptr("PC", "FJR") \o <<"\n">>

\* fjump_wrap(inst) is FjumpOpen \o inst \o FjumpClose \o FjumpDec.
\*   ">+<" "[>-]" ">[>]<\n" "[-\n    "
FjumpOpen ==
    <<">", "+", "<", "[", ">", "-", "]", ">", "[", ">", "]", "<", "\n",
      "[", "-", "\n", " ", " ", " ", " ">>
\*   "\n]\n"
FjumpClose == <<"\n", "]", "\n">>
\*   "+<[>-]>[>]<<->[-<+>]<\n"
FjumpDec ==
    <<"+", "<", "[", ">", "-", "]", ">", "[", ">", "]", "<", "<", "-", ">",
      "[", "-", "<", "+", ">", "]", "<", "\n">>

fjump_wrap(inst) == FjumpOpen \o inst \o FjumpClose \o FjumpDec

\* A close that leaves the pointer on BJR.
bjump_post_OnBJR == <<"<", "]", "\n">>

bjump_post == <<"<", "]", ">", "\n">>

wrap(inst, pc) == set_pc(pc) \o fjump_wrap(inst) \o bjump_post

\* "[-" * ni
RepOpen(ni) == [i \in 1..(2 * ni) |-> IF i % 2 = 1 THEN "[" ELSE "-"]

\* A prologue that arms one dispatch round too many.
bjump_pre_OneMore(ni) == inc(ni + 1) \o <<"\n">> \o RepOpen(ni) \o <<"\n", ">", "\n">>

bjump_pre(ni) == inc(ni) \o <<"\n">> \o RepOpen(ni) \o <<"\n", ">", "\n">>

gt_setup(rega, regb) ==
    cp(rega, "TR5", "TR4") \o ptr(rega, regb) \o cp(regb, "TR3", "TR4")
        \o ptr(regb, "TR5") \o cp("TR5", "TR1", "TR2")

clear_cond(curr_ptr) == ptr(curr_ptr, "CRR") \o clr \o ptr("CRR", curr_ptr)

\*   "[-<<[<<->]>[>]<->>]<<[+]<<"
\* A comparison that does not clear the remainder left in TR3.
gt_NoClear ==
    <<"[", "-", "<", "<", "[", "<", "<", "-", ">", "]", ">", "[", ">", "]",
      "<", "-", ">", ">", "]", "<", "<", "<", "<">>

gt ==
    <<"[", "-", "<", "<", "[", "<", "<", "-", ">", "]", ">", "[", ">", "]",
      "<", "-", ">", ">", "]", "<", "<", "[", "+", "]", "<", "<">>

inot(a, dst) ==
    ptr(a, dst) \o <<"+">> \o ptr(dst, a) \o <<"[", "[", "-", "]">>
        \o ptr(a, dst) \o <<"-">> \o ptr(dst, a) \o <<"]">>

\* cond(inst) is CondOpen \o inst \o <<"]">>.
\* A gate opening that leaves its copy of CRR in TR1.
CondOpen_Dirty ==
    ptr("IC", "CRR") \o cp_NoReturn("CRR", "IC", "TR1") \o ptr("CRR", "IC") \o <<"[", "-">>

CondOpen == ptr("IC", "CRR") \o cp("CRR", "IC", "TR1") \o ptr("CRR", "IC") \o <<"[", "-">>

cond(inst) == CondOpen \o inst \o <<"]">>

\* --------------------------------------------------------------------- BFI
\* An instruction compiler returns [err, text]: err is "" and text the
\* generated code, or err names how the compiler ended (exit(1) after a
\* message, or an exception that nothing catches) and text is empty.

Ok(text) == [err |-> "", text |-> text]
Fail(msg) == [err |-> msg, text |-> <<>>]

Digits == <<"0", "1", "2", "3", "4", "5", "6", "7", "8", "9">>
IsDigit(c) == c \in Range(Digits)
DigitVal(c) == (CHOOSE d \in 1..10 : Digits[d] = c) - 1

\* int(val) of a constant's text: the decimal value, or -1 for ValueError
\* (int("0x1F") raises: base 10 is the default).
RECURSIVE DecVal(_, _)
DecVal(val, k) == IF k = 0 THEN 0 ELSE 10 * DecVal(val, k - 1) + DigitVal(val[k])
IntOf(val) ==
    IF Len(val) > 0 /\ \A k \in 1..Len(val) : IsDigit(val[k])
    THEN DecVal(val, Len(val))
    ELSE -1

\* Whether an operand's value names a register of the given sequence (the
\* text of a constant, "5" or "0x5", never does).
Names(op, regs) == op.type # "CONSTANT" /\ op.val \in Range(regs)

BFI_add(i, labels, pc) ==
    IF Len(i.operands) # 2 THEN Fail("exit: Not enough operands in ADD")
    ELSE IF ~Names(i.operands[1], URegisters) THEN Fail("ValueError: Undefined register")
    ELSE LET regadd == i.operands[1].val IN
    CASE i.operands[2].type = "REFERENCE" ->
           IF ~Names(i.operands[2], URegisters) THEN Fail("ValueError: Undefined register")
           ELSE LET regsrc == i.operands[2].val
                    t2s == ptr("TR1", regsrc)
                    s2d == ptr(regsrc, regadd)
                    d2t == ptr(regadd, "TR1")
                IN  Ok(ptr("IC", regsrc) \o mv(regsrc, "TR1") \o ptr(regsrc, "TR1")
                       \o <<"[", "-">> \o t2s \o <<"+">> \o s2d \o <<"+">> \o d2t \o <<"]">>
                       \o ptr("TR1", "IC"))
      [] i.operands[2].type = "CONSTANT" ->
           IF IntOf(i.operands[2].val) < 0 THEN Fail("ValueError: invalid literal for int()")
           ELSE Ok(ptr("IC", regadd) \o Rep("+", IntOf(i.operands[2].val)) \o ptr(regadd, "IC"))
      [] OTHER -> Fail("exit: Unexpected operand type in ADD")

BFI_mov(i, labels, pc) ==
    IF Len(i.operands) # 2 THEN Fail("exit: Not enough operands in MOV")
    ELSE IF ~Names(i.operands[1], URegisters) THEN Fail("ValueError: Undefined register")
    ELSE IF i.operands[2].type # "CONSTANT" THEN Fail("exit: Unexpected operand type in MOV")
    ELSE IF IntOf(i.operands[2].val) < 0 THEN Fail("ValueError: invalid literal for int()")
    ELSE LET dstv == i.operands[1].val IN
         Ok(ptr("IC", dstv) \o clr \o Rep("+", IntOf(i.operands[2].val)) \o ptr(dstv, "IC"))

BFI_out(i, labels, pc) ==
    IF Len(i.operands) # 1 THEN Fail("exit: Not enough operands in OUT")
    ELSE IF ~Names(i.operands[1], URegisters) THEN Fail("ValueError: Undefined register")
    ELSE LET dstv == i.operands[1].val IN
         Ok(ptr("IC", dstv) \o <<".">> \o ptr(dstv, "IC"))

\*   "[-<->]<"
SubTail == <<"[", "-", "<", "-", ">", "]", "<">>

\* The register-indirect branch's code.
BranchReg(dstv) ==
    LET head == ptr("IC", "PC") \o gt_setup("PC", dstv) \o gt \o <<"\n">>
                  \o cp("TR1", "TR3", "TR4") \o ptr("TR1", "TR3")
                  \o inot("TR3", "TR2") \o ptr("TR3", "TR1") \o <<"\n">>
        \* Jump back: PC - DST + 1
        subB == ptr("TR1", "PC") \o cp("PC", "TR3", "TR5") \o ptr("PC", dstv)
                  \o cp(dstv, "TR4", "TR5") \o ptr(dstv, "TR4") \o SubTail
        back == <<"[">> \o subB \o <<"\n", "+">> \o mv("TR3", "BJR")
                  \o ptr("TR3", "TR1") \o <<"-", "]", "\n">>
        \* Jump fwd: DST - PC
        subF == ptr("TR2", "PC") \o cp("PC", "TR4", "TR5") \o ptr("PC", dstv)
                  \o cp(dstv, "TR3", "TR5") \o ptr(dstv, "TR4") \o SubTail
        fwd == <<">", "[">> \o subF \o mv("TR3", "FJR") \o ptr("TR3", "TR2")
                  \o <<"-", "]">> \o ptr("TR2", "IC")
    IN  head \o back \o fwd

\* BranchLabel with the forward count one too large.
BranchLabel_FwdOneMore(ip, pc) ==
    IF ip > pc
    THEN ptr("IC", "FJR") \o inc(ip - pc + 1) \o ptr("FJR", "IC")
    ELSE ptr("IC", "BJR") \o inc(pc - ip + 1) \o ptr("BJR", "IC")

\* BranchLabel with the backward count one too small.
BranchLabel_BackOneLess(ip, pc) ==
    IF ip > pc
    THEN ptr("IC", "FJR") \o inc(ip - pc) \o ptr("FJR", "IC")
    ELSE ptr("IC", "BJR") \o inc(pc - ip) \o ptr("BJR", "IC")

\* The label branch's code, for a label bound to ip.
BranchLabel(ip, pc) ==
    IF ip > pc
    THEN \* Jump forward
         ptr("IC", "FJR") \o inc(ip - pc) \o ptr("FJR", "IC")
    ELSE \* Jump back
         ptr("IC", "BJR") \o inc(pc - ip + 1) \o ptr("BJR", "IC")

\* A branch that compiles an undefined label to nothing.
BFI_branch_Lenient(i, labels, pc) ==
    IF Len(i.operands) # 1 THEN Fail("exit: Not enough operands in B")
    ELSE LET dstv == i.operands[1].val IN
         IF dstv \in Range(URegisters) THEN Ok(BranchReg(dstv))
         ELSE IF dstv \notin DOMAIN labels THEN Ok(<<>>)
         ELSE Ok(BranchLabel(labels[dstv].ip, pc))

BFI_branch(i, labels, pc) ==
    IF Len(i.operands) # 1 THEN Fail("exit: Not enough operands in B")
    ELSE LET dstv == i.operands[1].val IN
         IF dstv \in Range(URegisters) THEN Ok(BranchReg(dstv))
         ELSE IF dstv \notin DOMAIN labels THEN Fail("exit: Undefined label")
         ELSE Ok(BranchLabel(labels[dstv].ip, pc))

BFI_gt(i, labels, pc) ==
    IF Len(i.operands) < 2 THEN Fail("IndexError: list index out of range")
    ELSE IF ~Names(i.operands[1], Registers) \/ ~Names(i.operands[2], Registers)
    THEN Fail("ValueError: Undefined register")
    ELSE LET a == i.operands[1].val
             b == i.operands[2].val
         IN  Ok(clear_cond("IC") \o ptr("IC", a) \o <<"\n">> \o gt_setup(a, b) \o <<"\n">>
                  \o gt \o <<"\n">> \o mv("TR1", "CRR") \o <<"\n">> \o ptr("TR1", "IC"))

\* The keys of IPtr, and the compiler each names.
IPtr == {"ADD", "MOV", "OUT", "GT", "B"}

Compile1(name, i, labels, pc) ==
    CASE name = "ADD" -> BFI_add(i, labels, pc)
      [] name = "MOV" -> BFI_mov(i, labels, pc)
      [] name = "OUT" -> BFI_out(i, labels, pc)
      [] name = "GT"  -> BFI_gt(i, labels, pc)
      [] name = "B"   -> BFI_branch(i, labels, pc)

\* i.name.endswith("C") and i.name[:-1] in IPtr
IsConditional(name) == \E n \in IPtr : n \o "C" = name
\* i.name[:-1], for such a name
Unsuffixed(name) == CHOOSE n \in IPtr : n \o "C" = name

\* ---------------------------------------------------------------- assemble
\* What assemble returns or how it ends: [err, text, blocks].  blocks[pc + 1]
\* gives, for the block of instruction pc, the positions in the final text
\* (0-based, as compile's bfp) of
\*   start: the first character of the payload fjump_wrap guards,
\*   inner: the first character of the instruction's own code (after cond's
\*          opening for a conditional instruction, else start),
\*   innerEnd: the character after the instruction's own code,
\*   end:   the "]" that closes fjump_wrap's guard.
Block(off, pc, istr, isCond) ==
    LET start == off + Len(set_pc(pc)) + Len(FjumpOpen)
        inner == start + (IF isCond THEN Len(CondOpen) ELSE 0)
        payload == IF isCond THEN Len(cond(istr)) ELSE Len(istr)
    IN  [start |-> start, inner |-> inner, innerEnd |-> inner + Len(istr),
         end |-> start + payload + 1, cond |-> isCond]

\* One iteration of assemble's loop, for instruction pc: [err, text, cond],
\* text being the instruction's own code (istr).
Compiled(r, isCond) == [err |-> r.err, text |-> r.text, cond |-> isCond]
AssembleOne(i, labels, pc) ==
    IF IsConditional(i.name)
    THEN Compiled(Compile1(Unsuffixed(i.name), i, labels, pc), TRUE)
    ELSE IF i.name \in IPtr
    THEN Compiled(Compile1(i.name, i, labels, pc), FALSE)
    ELSE [err |-> "exit: Unrecognized instruction", text |-> <<>>, cond |-> FALSE]

\* bf += BFGen.wrap(BFGen.cond(istr), pc), or bf += BFGen.wrap(istr, pc)
Wrapped(r, pc) == IF r.cond THEN wrap(cond(r.text), pc) ELSE wrap(r.text, pc)

\* The loop from instruction pc on; the first error ends it.
RECURSIVE AssembleFrom(_, _, _, _, _)
AssembleNext(instructions, labels, pc, bf, blocks, r) ==
    IF r.err # "" THEN [err |-> r.err, text |-> <<>>, blocks |-> <<>>]
    ELSE AssembleFrom(instructions, labels, pc + 1, bf \o Wrapped(r, pc),
                      Append(blocks,
                             Block(Len(bjump_pre(Len(instructions))) + Len(bf),
                                   pc, r.text, r.cond)))
AssembleFrom(instructions, labels, pc, bf, blocks) ==
    IF pc = Len(instructions) THEN [err |-> "", text |-> bf, blocks |-> blocks]
    ELSE AssembleNext(instructions, labels, pc, bf, blocks,
                      AssembleOne(instructions[pc + 1], labels, pc))

\* return BFGen.bjump_pre(len(instructions)) + bf
Prefixed(r, ni) == IF r.err # "" THEN r ELSE [r EXCEPT !.text = bjump_pre(ni) \o @]
assemble(instructions, labels) ==
    Prefixed(AssembleFrom(instructions, labels, 0, <<>>, <<>>), Len(instructions))

\* ------------------------------------------------------------------ parser
\* Tokens are [type, value]; the value of a CONSTANT token is the text after
\* the "#", a sequence of characters.

\* `t.value is labels`: the identity of a string and of the label table.
IsLabels(value, labels) == FALSE

\* labels[name] = Label(name, ip)
Bind(labels, name, ip) ==
    [n \in DOMAIN labels \cup {name} |->
        IF n = name THEN [name |-> name, ip |-> ip] ELSE labels[n]]

Unexpected(st) == [st EXCEPT !.err = "exit: Unexpected token"]

\* complete_instruction(), then state = STATEMENT
Complete(st) ==
    [st EXCEPT !.ic = @ + 1,
               !.instructions = Append(@, st.curr_inst),
               !.state = "STATEMENT"]

\* One iteration of the parser's loop over the tokens.
ParserToken(st, t) ==
    IF t.type = "COMMENT" THEN st
    ELSE
    CASE st.state = "STATEMENT" ->
           CASE t.type = "LABEL" ->
                  IF IsLabels(t.value, st.labels)
                  THEN [st EXCEPT !.err = "exit: Duplicate label"]
                  ELSE [st EXCEPT !.labels = Bind(@, t.value, st.ic)]
             [] t.type = "WORD" ->
                  [st EXCEPT !.curr_inst.name = t.value, !.state = "OPERAND_1"]
             [] t.type = "NEWLINE" -> st
             [] OTHER -> Unexpected(st)
      [] st.state = "OPERAND_1" ->
           CASE t.type = "WORD" ->
                  [st EXCEPT !.curr_inst.operands =
                                 <<[val |-> t.value, type |-> "REFERENCE"]>>,
                             !.state = "OPERAND_CONT"]
             [] t.type = "NEWLINE" -> Complete(st)
             [] OTHER -> Unexpected(st)
      [] st.state = "OPERAND_CONT" ->
           CASE t.type = "COMMA" -> [st EXCEPT !.state = "OPERAND_2"]
             [] t.type = "NEWLINE" -> Complete(st)
             [] OTHER -> Unexpected(st)
      [] st.state = "OPERAND_2" ->
           CASE t.type = "WORD" ->
                  [st EXCEPT !.curr_inst.operands =
                                 Append(@, [val |-> t.value, type |-> "REFERENCE"]),
                             !.state = "OPERAND_CONT"]
             [] t.type = "ADDRESS" ->
                  [st EXCEPT !.curr_inst.operands =
                                 Append(@, [val |-> t.value, type |-> "ADDRESS"]),
                             !.state = "OPERAND_CONT"]
             [] t.type = "CONSTANT" ->
                  [st EXCEPT !.curr_inst.operands =
                                 Append(@, [val |-> t.value, type |-> "CONSTANT"]),
                             !.state = "OPERAND_CONT"]
             [] OTHER -> Unexpected(st)

ParserInit ==
    [state |-> "STATEMENT", instructions |-> <<>>, labels |-> <<>>, ic |-> 0,
     curr_inst |-> [name |-> "", operands |-> <<>>], err |-> ""]

\* The loop: the first exit(1) ends it.
RECURSIVE ParserLoop(_, _, _)
ParserLoop(toks, k, st) ==
    IF k > Len(toks) \/ st.err # "" THEN st
    ELSE ParserLoop(toks, k + 1, ParserToken(st, toks[k]))

parser(toks) == ParserLoop(toks, 1, ParserInit)

\* ------------------------------------------------------------------- state

VARIABLES
    tokens,        \* the lexer's token stream, the parser's input
    stage,         \* "parser", "assemble", "compile", "run", or "exit" (bfas ended in an error)
    error,         \* how bfas ended when stage is "exit"
    instructions,  \* the parser's instruction list
    labels,        \* the parser's label table: name -> [name, ip]
    bf,            \* the text written to the output file (<<>>: nothing written)
    blocks,        \* where each instruction's block lies in bf (see Block)
    ci,            \* compile: the number of characters of bf consumed
    program,       \* compile's result, the machine's program
    loop_stack,    \* compile: the open loops
    memory,        \* the machine's tape, cell k at memory[k + 1]
    pc,            \* the machine's program counter (0-based)
    last_pc,
    mp,            \* the machine's memory pointer (0-based)
    res,           \* what the last step returned; "IndexError" when it raised
    printed,       \* the values OUT printed, in order
    executed,      \* the payloads entered so far: [pc, mem, nout] at each entry
    inner          \* times the current payload's instruction code was entered

vars == <<tokens, stage, error, instructions, labels, bf, blocks, ci, program,
          loop_stack, memory, pc, last_pc, mp, res, printed, executed, inner>>

\* --------------------------------------------------------------- bfc.compile

Instruction(i, bfp, data) == [i |-> i, bfp |-> bfp, data |-> data]

Last(s) == s[Len(s)]

\* "+" and "-" (d = 1, -1) extend a preceding ADD, ">" and "<" a preceding MV.
Merge(prog, kind, i, d) ==
    IF Last(prog).i = kind
    THEN [prog EXCEPT ![Len(prog)].data = @ + d]
    ELSE Append(prog, Instruction(kind, i, d))

\* The loop body of compile for character b at position i (0-based):
\* [program, loop_stack, err].
CompileChar(prog, stack, i, b) ==
    CASE b = "+" -> [program |-> Merge(prog, "ADD", i, 1), loop_stack |-> stack, err |-> ""]
      [] b = "-" -> [program |-> Merge(prog, "ADD", i, -1), loop_stack |-> stack, err |-> ""]
      [] b = ">" -> [program |-> Merge(prog, "MV", i, 1), loop_stack |-> stack, err |-> ""]
      [] b = "<" -> [program |-> Merge(prog, "MV", i, -1), loop_stack |-> stack, err |-> ""]
      [] b = "." -> [program |-> Append(prog, Instruction("OUT", i, 0)),
                     loop_stack |-> stack, err |-> ""]
      [] b = "!" -> [program |-> Append(prog, Instruction("DBG", i, 0)),
                     loop_stack |-> stack, err |-> ""]
      [] b = "[" -> [program |-> Append(prog, Instruction("JZ", i, 0)),
                     loop_stack |-> Append(stack, Len(prog)), err |-> ""]
      [] b = "]" ->
           IF stack = <<>>
           THEN [program |-> prog, loop_stack |-> stack,
                 err |-> "IndexError: pop from empty list"]
           ELSE LET addr == Last(stack)
                    p1 == Append(prog, Instruction("JMP", i, addr))
                IN  [program |-> [p1 EXCEPT ![addr + 1].data = Len(p1)],
                     loop_stack |-> SubSeq(stack, 1, Len(stack) - 1), err |-> ""]
      [] OTHER -> [program |-> prog, loop_stack |-> stack, err |-> ""]

\* ------------------------------------------------------- BrainFuckMachine.step

\* memory[mp] as Python reads it: a negative index counts from the end.
InRange(p) == -MemorySize <= p /\ p < MemorySize
Cell(mem, p) == IF p >= 0 THEN mem[p + 1] ELSE mem[MemorySize + p + 1]

\* The Result a step returns after moving the program counter to npc.
Ended(npc) == IF npc = Len(program) THEN "END" ELSE "OK"

\* step(): [res, memory, pc, last_pc, mp, printed].
step ==
    LET same == [res |-> "OK", memory |-> memory, pc |-> pc, last_pc |-> last_pc,
                 mp |-> mp, printed |-> printed]
    IN
    IF pc < 0 \/ pc > Len(program) THEN [same EXCEPT !.res = "BUSFAULT"]
    ELSE IF pc = Len(program) THEN [same EXCEPT !.res = "IndexError"]
    ELSE
    LET i == program[pc + 1]
        jump(npc) == [same EXCEPT !.pc = npc, !.last_pc = pc, !.res = Ended(npc)]
    IN
    CASE i.i = "NOP" -> jump(pc + 1)
      [] i.i = "ADD" ->
           IF mp < 0 \/ mp >= MemorySize THEN [same EXCEPT !.res = "SEGFAULT"]
           ELSE [jump(pc + 1) EXCEPT
                    !.memory = [memory EXCEPT ![mp + 1] = (@ + i.data) % DataSize]]
      [] i.i = "MV" -> [jump(pc + 1) EXCEPT !.mp = mp + i.data]
      [] i.i = "JMP" -> jump(i.data)
      [] i.i = "JZ" ->
           IF ~InRange(mp) THEN [same EXCEPT !.res = "IndexError"]
           ELSE IF Cell(memory, mp) = 0 THEN jump(i.data) ELSE jump(pc + 1)
      [] i.i = "OUT" ->
           IF ~InRange(mp) THEN [same EXCEPT !.res = "IndexError"]
           ELSE [jump(pc + 1) EXCEPT !.printed = Append(printed, Cell(memory, mp))]
      [] i.i = "DBG" -> jump(pc + 1)

\* ----------------------------------------------------------------- actions

\* The block whose payload starts, or whose instruction code starts, at the
\* machine instruction about to run (0: none).
BlockAt(field) ==
    IF pc < 0 \/ pc >= Len(program) THEN 0
    ELSE LET at == {k \in 1..Len(blocks) : blocks[k][field] = program[pc + 1].bfp}
         IN  IF at = {} THEN 0 ELSE CHOOSE k \in at : TRUE

AtStart == BlockAt("start")
AtInner == BlockAt("inner")
AtInnerEnd == BlockAt("innerEnd")
AtEnd == BlockAt("end")

\* bfas: instructions, labels = parser(tokens)
Parsed(st) ==
    IF st.err # ""
    THEN /\ stage' = "exit"
         /\ error' = st.err
         /\ UNCHANGED <<instructions, labels>>
    ELSE /\ stage' = "assemble"
         /\ instructions' = st.instructions
         /\ labels' = st.labels
         /\ UNCHANGED error

Parse ==
    /\ stage = "parser"
    /\ Parsed(parser(tokens))
    /\ UNCHANGED <<tokens, bf, blocks, ci, program, loop_stack, memory, pc, last_pc,
                   mp, res, printed, executed, inner>>

\* bfas: bf = assemble(instructions, labels); output.write(bf)
Written(r) ==
    IF r.err # ""
    THEN /\ stage' = "exit"
         /\ error' = r.err
         /\ UNCHANGED <<bf, blocks>>
    ELSE /\ stage' = "compile"
         /\ bf' = r.text
         /\ blocks' = r.blocks
         /\ UNCHANGED error

Assemble ==
    /\ stage = "assemble"
    /\ Written(assemble(instructions, labels))
    /\ UNCHANGED <<tokens, instructions, labels, ci, program, loop_stack, memory, pc,
                   last_pc, mp, res, printed, executed, inner>>

\* bfc: one iteration of compile's loop over the file's characters; after
\* the last one the machine is built and run.
Compile ==
    /\ stage = "compile"
    /\ ci < Len(bf)
    /\ LET r == CompileChar(program, loop_stack, ci, bf[ci + 1]) IN
       IF r.err # ""
       THEN /\ stage' = "exit"
            /\ error' = r.err
            /\ UNCHANGED <<ci, program, loop_stack>>
       ELSE /\ stage' = IF ci + 1 = Len(bf) THEN "run" ELSE "compile"
            /\ ci' = ci + 1
            /\ program' = r.program
            /\ loop_stack' = r.loop_stack
            /\ UNCHANGED error
    /\ UNCHANGED <<tokens, instructions, labels, bf, blocks, memory, pc, last_pc, mp,
                   res, printed, executed, inner>>

\* bfc: one iteration of run's loop, res = self.step()
Step ==
    /\ stage = "run"
    /\ res = "OK"
    /\ AtStart # 0 => Len(executed) < MaxExec
    /\ LET r == step IN
       /\ res' = r.res
       /\ memory' = r.memory
       /\ pc' = r.pc
       /\ last_pc' = r.last_pc
       /\ mp' = r.mp
       /\ printed' = r.printed
    /\ executed' = IF AtStart # 0
                   THEN Append(executed, [pc |-> AtStart - 1, mem |-> memory,
                                          nout |-> Len(printed)])
                   ELSE executed
    /\ inner' = IF AtStart # 0 THEN (IF blocks[AtStart].cond THEN 0 ELSE 1)
                ELSE IF AtInner # 0 THEN inner + 1
                ELSE inner
    /\ UNCHANGED <<tokens, stage, error, instructions, labels, bf, blocks, ci, program,
                   loop_stack>>

Next == Parse \/ Assemble \/ Compile \/ Step

\* What the pipeline starts from, for a set of token streams.
InitFrom(sources) ==
    /\ tokens \in sources
    /\ stage = "parser"
    /\ error = ""
    /\ instructions = <<>>
    /\ labels = <<>>
    /\ bf = <<>>
    /\ blocks = <<>>
    /\ ci = 0
    /\ program = <<Instruction("NOP", 0, 0)>>
    /\ loop_stack = <<>>
    /\ memory = [k \in 1..MemorySize |-> 0]
    /\ pc = 0
    /\ last_pc = 0
    /\ mp = 0
    /\ res = "OK"
    /\ printed = <<>>
    /\ executed = <<>>
    /\ inner = 0

\* ------------------------------------------------------------------ inputs
\* Token streams as the lexer produces them, one line per element.

Word(v) == [type |-> "WORD", value |-> v]
Newline == [type |-> "NEWLINE", value |-> ""]
Comma == [type |-> "COMMA", value |-> ","]
\* #n, n written in decimal (n < 10)
Const(n) == [type |-> "CONSTANT", value |-> <<Digits[n + 1]>>]

LabelLine(name) == <<[type |-> "LABEL", value |-> name], Newline>>
Line0(name) == <<Word(name), Newline>>
Line1(name, a) == <<Word(name), Word(a), Newline>>
Line2(name, a, b) == <<Word(name), Word(a), Comma, b, Newline>>

RECURSIVE Flatten(_)
Flatten(lines) == IF lines = <<>> THEN <<>> ELSE Head(lines) \o Flatten(Tail(lines))

Values == 0..(DataSize - 1)
UserRegs == Range(URegisters)

\* The lines of n instructions Ins(0) .. Ins(n - 1), with the label L
\* defined before instruction t (after the last one when t = n).
WithLabel(n, t, Ins(_)) ==
    Flatten([k \in 1..(n + 1) |->
                (IF k = t + 1 THEN LabelLine("L") ELSE <<>>)
                    \o (IF k <= n THEN Ins(k - 1) ELSE <<>>)])

\* An instruction that counts its executions in a register of its own:
\* ADD R<k+1>, #1.
Filler(k) == Line2("ADD", URegisters[k + 3], Const(1))

\* B L at index p, L bound to t, counting instructions elsewhere.
BranchProg(n, p, t) == WithLabel(n, t, LAMBDA k : IF k = p THEN Line1("B", "L") ELSE Filler(k))

\* MOV CRR, #c ; BC L ; counting instructions, L bound to t.
CondBranchProg(n, c, t) ==
    WithLabel(n, t, LAMBDA k : IF k = 0 THEN Line2("MOV", "CRR", Const(c))
                               ELSE IF k = 1 THEN Line1("BC", "L")
                               ELSE Filler(k))

\* Programs of ADD, MOV, OUT, GT and forward label branches.
FwdSources ==
    {BranchProg(n, p, t) : <<n, p, t>> \in
        {x \in (1..MaxInstr) \X (0..MaxInstr) \X (1..MaxInstr) :
            x[2] < x[3] /\ x[3] <= x[1]}}
    \cup {CondBranchProg(MaxInstr, c, t) : <<c, t>> \in Values \X (2..MaxInstr)}
    \cup {Flatten(<<Line2("MOV", "R1", Const(a)), Line2("GT", "R1", Word("PC")),
                    Line1("OUTC", "R1")>>) : a \in Values}
    \cup {Flatten(<<Line2("MOV", "R1", Const(a)), Line2("ADD", "R2", Word("R1")),
                    Line1("OUT", "R2")>>) : a \in Values}
    \cup {Flatten(<<Line2("GT", "PC", Word("R1")), Line1("BC", "L"),
                    Line2("MOVC", "R3", Const(2)), LabelLine("L")>>)}

InitFwd == InitFrom(FwdSources)
SpecFwd == InitFwd /\ [][Next]_vars

\* Programs with a backward label branch.
BackSources ==
    {BranchProg(n, p, t) : <<n, p, t>> \in
        {x \in (1..MaxInstr) \X (0..MaxInstr) \X (0..MaxInstr) :
            x[3] <= x[2] /\ x[2] < x[1]}}

InitBack == InitFrom(BackSources)
SpecBack == InitBack /\ [][Next]_vars

\* A program of three lines, without labels.
Prog3(l1, l2, l3) == Flatten(<<l1, l2, l3>>)

\* MOV CRR, #c ; XC ... ; a counting instruction, for each opcode X, and a GT
\* followed by a conditional instruction.
CondSources ==
    {Prog3(Line2("MOV", "CRR", Const(c)), x, Filler(2)) :
        <<c, x>> \in Values \X {Line2("ADDC", "R1", Const(1)),
                                Line2("ADDC", "R1", Word("CRR")),
                                Line2("MOVC", "R1", Const(2)),
                                Line1("OUTC", "CRR"),
                                Line2("GTC", "PC", Word("R1")),
                                Line1("BC", "R1")}}
    \cup {CondBranchProg(MaxInstr, c, t) : <<c, t>> \in Values \X (0..MaxInstr)}
    \cup {Prog3(Line2("MOV", a, Const(x)), Line2("GT", a, Word(b)),
                Line2("MOVC", "R3", Const(1))) :
            <<a, b, x>> \in {"R1", "CRR", "PC"} \X {"R2", "PC"} \X Values}
    \cup {Prog3(Line2("MOV", b, Const(x)), Line2("GT", "R1", Word(b)),
                Line1("OUTC", "R1")) : <<b, x>> \in {"R2", "CRR"} \X Values}

InitCond == InitFrom(CondSources)
SpecCond == InitCond /\ [][Next]_vars

\* MOV a, #x ; MOV b, #y ; GT a, b: every ordered pair of user registers,
\* and every pair of values for R1 and R2.
GTProg(a, b, x, y) ==
    Prog3(Line2("MOV", a, Const(x)), Line2("MOV", b, Const(y)), Line2("GT", a, Word(b)))

GTSources ==
    {GTProg(a, b, v[1], v[2]) : <<a, b, v>> \in UserRegs \X UserRegs \X {<<2, 1>>, <<1, 2>>}}
    \cup {GTProg("R1", "R2", x, y) : <<x, y>> \in Values \X Values}

InitGT == InitFrom(GTSources)
SpecGT == InitGT /\ [][Next]_vars

\* MOV dst, #x ; MOV src, #y ; ADD dst, src and MOV dst, #x ; ADD dst, #n.
AddProg(dst, src, x, y) ==
    Prog3(Line2("MOV", dst, Const(x)), Line2("MOV", src, Const(y)),
          Line2("ADD", dst, Word(src)))

AddSources ==
    {AddProg(dst, src, v[1], v[2]) : <<dst, src, v>> \in
        UserRegs \X UserRegs \X {<<1, 2>>, <<DataSize - 1, DataSize - 1>>}}
    \cup {AddProg("R1", src, x, y) : <<src, x, y>> \in {"R1", "R2"} \X Values \X Values}
    \cup {Flatten(<<Line2("MOV", dst, Const(DataSize - 1)), Line2("ADD", dst, Const(n))>>) :
            <<dst, n>> \in UserRegs \X (0..(DataSize + 1))}

InitAdd == InitFrom(AddSources)
SpecAdd == InitAdd /\ [][Next]_vars

\* MOV dst, #n ; OUT dst, with dst zero or not before.
MovOutSources ==
    {Flatten(<<Line2("MOV", dst, Const(n)), Line1("OUT", dst)>>) :
        <<dst, n>> \in UserRegs \X Values}
    \cup {Prog3(Line2("MOV", dst, Const(DataSize - 1)), Line2("MOV", dst, Const(n)),
                Line1("OUT", dst)) : <<dst, n>> \in UserRegs \X Values}

InitMovOut == InitFrom(MovOutSources)
SpecMovOut == InitMovOut /\ [][Next]_vars

\* MOV r, #t ; counting instructions with B r at index p.
RegBranchProg(n, r, p, t) ==
    Flatten([k \in 1..n |->
                IF k = 1 THEN Line2("MOV", r, Const(t))
                ELSE IF k = p + 1 THEN Line1("B", r)
                ELSE Filler(k - 1)])

RegBranchSources ==
    {RegBranchProg(n, r, p, t) : <<n, r, p, t>> \in
        {x \in (2..MaxInstr) \X {"R1", "R5", "CRR"} \X (1..MaxInstr) \X (0..MaxInstr) :
            x[3] < x[1] /\ x[4] <= x[1]}}
    \cup {Flatten(<<Line1("B", r), Filler(1)>>) : r \in {"R1", "PC"}}

InitRegBranch == InitFrom(RegBranchSources)
SpecRegBranch == InitRegBranch /\ [][Next]_vars

\* run() steps the machine for as long as the result is OK.
SpecFwdFair == SpecFwd /\ WF_vars(Step)

\* Sources that define the label L twice.
DupSources ==
    {Flatten(<<LabelLine("L"), LabelLine("L"), Filler(0)>>),
     Flatten(<<LabelLine("L"), Filler(0), LabelLine("L"), Filler(1)>>),
     Flatten(<<Line1("B", "L"), LabelLine("L"), Filler(1), LabelLine("L"), Filler(2)>>),
     Flatten(<<LabelLine("L"), Filler(0), LabelLine("M"), Filler(1), LabelLine("L")>>)}

\* Counting instructions with `name M` at index p, M defined nowhere; the
\* label L is bound to t when t is not negative.
UndefProg(n, p, name, t) ==
    Flatten([k \in 1..(n + 1) |->
                (IF k = t + 1 THEN LabelLine("L") ELSE <<>>)
                \o (IF k = n + 1 THEN <<>>
                    ELSE IF k = p + 1 THEN Line1(name, "M")
                    ELSE Filler(k - 1))])

UndefSources ==
    {UndefProg(n, p, name, t) : <<n, p, name, t>> \in
        {x \in (1..MaxInstr) \X (0..(MaxInstr - 1)) \X {"B", "BC"} \X {-1, 1} :
            x[2] < x[1]}}

\* Sources of every kind: well-formed ones, ones with a label defined twice
\* and ones with a branch to a label defined nowhere.
Sources ==
    DupSources \cup UndefSources
    \cup {BranchProg(2, p, t) : <<p, t>> \in (0..1) \X (0..2)}
    \cup {Flatten(<<Line2("MOV", "R1", Const(a)), Line1("OUT", "R1")>>) : a \in Values}

Init == InitFrom(Sources)
Spec == Init /\ [][Next]_vars

\* #0xH as re_hex_const yields it: the text "0x" and hexadecimal digits.
HexDigits == Digits \o <<"A", "B", "C", "D", "E", "F">>
HexConst(h) == [type |-> "CONSTANT", value |-> <<"0", "x", HexDigits[h + 1]>>]

\* ADD and MOV with a constant, hexadecimal or decimal, alone and after
\* another instruction.
ConstSources ==
    {Flatten(<<Line2(op, "R1", c)>>) :
        <<op, c>> \in {"ADD", "MOV"} \X ({HexConst(h) : h \in Values \cup {10}}
                                        \cup {Const(n) : n \in Values})}
    \cup {Flatten(<<Line2("MOV", "R2", Const(1)), Line2(op, "R2", c), Line1("OUT", "R2")>>) :
            <<op, c>> \in {"ADD", "MOV"} \X {HexConst(2), Const(2)}}

InitConst == InitFrom(ConstSources)
SpecConst == InitConst /\ [][Next]_vars

\* A line `OP a, b, c`.
Line3(name, a, b, c) == <<Word(name), Word(a), Comma, b, Comma, c, Newline>>

\* One instruction with an operand too few or too many, or with a
\* compiler-internal register as an operand, alone and after a valid
\* instruction; and the well-formed instruction of each opcode.
OperandLines ==
    {Line0("OUT"), Line3("OUT", "R1", Word("R2"), Word("R3"))}
    \cup {Line1(op, "R1") : op \in {"ADD", "MOV", "GT"}}
    \cup {Line2("OUT", "R1", Word("R2"))}
    \cup {Line3(op, "R1", b, Word("R3")) :
            <<op, b>> \in {"ADD", "MOV", "GT"} \X {Const(1), Word("R2")}}
    \cup {Line1("OUT", r) : r \in {"TR1", "BJR", "R1"}}
    \cup {Line2(op, r, Const(1)) : <<op, r>> \in {"ADD", "MOV"} \X {"TR1", "IC", "R1"}}
    \cup {Line2(op, a, Word(b)) :
            <<op, a, b>> \in {"ADD", "GT"} \X {"R1", "TR1", "FJR"} \X {"R2", "TR5"}}

OperandSources ==
    {Flatten(<<l>>) : l \in OperandLines}
    \cup {Flatten(<<Filler(2), l>>) : l \in OperandLines}

InitOperands == InitFrom(OperandSources)
SpecOperands == InitOperands /\ [][Next]_vars

\* bfc alone, on a text of its own: compile, then run.
InitBfc(texts) ==
    /\ tokens = <<>>
    /\ stage = "compile"
    /\ error = ""
    /\ instructions = <<>>
    /\ labels = <<>>
    /\ bf \in texts
    /\ blocks = <<>>
    /\ ci = 0
    /\ program = <<Instruction("NOP", 0, 0)>>
    /\ loop_stack = <<>>
    /\ memory = [k \in 1..MemorySize |-> 0]
    /\ pc = 0
    /\ last_pc = 0
    /\ mp = 0
    /\ res = "OK"
    /\ printed = <<>>
    /\ executed = <<>>
    /\ inner = 0

NextBfc == Compile \/ Step

\* Text that, from the machine's initial state, gives each register of
\* sets (<<register, value>> pairs) its value and leaves the pointer on at.
RECURSIVE SetAll(_, _)
SetAll(sets, from) ==
    IF sets = <<>> THEN ptr(from, "BJR")
    ELSE ptr(from, sets[1][1]) \o Rep("+", sets[1][2]) \o SetAll(Tail(sets), sets[1][1])
Before(sets, at) == SetAll(sets, "BJR") \o ptr("BJR", at)

\* gt_setup(a, b) and gt() with a = x and b = y.
GtText(a, b, x, y) == Before(<<<<a, x>>, <<b, y>>>>, a) \o gt_setup(a, b) \o gt
GtPairs == {<<"R1", "R2">>, <<"R5", "CRR">>, <<"PC", "R1">>}

\* cp(src, dst, tmp) with src = x, dst = d and tmp = s.
CpText(src, dst, tmp, x, d, s) ==
    Before(<<<<src, x>>, <<dst, d>>, <<tmp, s>>>>, src) \o cp(src, dst, tmp)
CpTriples == {<<"R1", "R2", "R3">>, <<"CRR", "IC", "TR1">>, <<"TR5", "TR1", "TR2">>}
Held == {0, 1, DataSize - 1}

\* inot(src, dst) with src = x and dst = 0.
InotText(src, dst, x) == Before(<<<<src, x>>>>, src) \o inot(src, dst)
InotPairs == {<<"TR3", "TR2">>, <<"R1", "R2">>}

\* inc(n) on R1 = v.
IncText(v, n) == Before(<<<<"R1", v>>>>, "R1") \o inc(n)
Increments == (-2)..(DataSize + 1)

\* Texts that use the active cell with the pointer off the tape, on either
\* side, and on its first and last cell.
EdgeTexts ==
    {pre \o use : <<pre, use>> \in
        {<<"<">>, Rep(">", MemorySize), Rep(">", MemorySize - 1), <<">", "<">>}
        \X {<<"+">>, <<"-">>, <<".">>, <<"[", "]">>}}

BfcTexts ==
    {GtText(p[1], p[2], x, y) : <<p, x, y>> \in GtPairs \X Values \X Values}
    \cup {CpText(t[1], t[2], t[3], x, d, s) :
            <<t, x, d, s>> \in CpTriples \X Values \X Held \X Held}
    \cup {InotText(p[1], p[2], x) : <<p, x>> \in InotPairs \X Values}
    \cup {IncText(v, n) : <<v, n>> \in Values \X Increments}
    \cup EdgeTexts

InitBfcTexts == InitBfc(BfcTexts)
SpecBfc == InitBfcTexts /\ [][NextBfc]_vars

\* Programs of every kind above: forward, backward and register branches,
\* conditional instructions, GT, ADD, MOV and OUT.
ProgramSources == FwdSources \cup BackSources \cup CondSources \cup RegBranchSources

InitPrograms == InitFrom(ProgramSources)
SpecPrograms == InitPrograms /\ [][Next]_vars

\* Two lines around a label definition: an instruction written without
\* operands, with one and with two, after each of the others.
OwnLines ==
    {Line0("OUT"), Line0("ADD"), Line1("OUT", "R1"), Line1("OUT", "R2"),
     Line1("B", "L"), Line2("ADD", "R1", Const(1)), Line2("MOV", "R2", Const(2))}

ParseSources ==
    {Flatten(<<a, LabelLine("L"), b>>) : a, b \in OwnLines}
    \cup {Flatten(<<a, b, LabelLine("L")>>) : a, b \in OwnLines}

InitParse == InitFrom(ParseSources)
SpecParse == InitParse /\ [][Next]_vars

\* ------------------------------------------------------- reading the state

Instr(k) == instructions[k + 1]
RegOf(mem, reg) == mem[address_of(reg) + 1]

\* Instruction k is `name L` with L a label of the table (not a register).
IsLabelBranch(k, name) ==
    /\ Instr(k).name = name
    /\ Len(Instr(k).operands) = 1
    /\ Instr(k).operands[1].val \notin UserRegs
    /\ Instr(k).operands[1].val \in DOMAIN labels
Target(k) == labels[Instr(k).operands[1].val].ip

\* The user registers but PC, which every block's set phase rewrites.
DataRegs == UserRegs \ {"PC"}

\* ------------------------------------------------------------------ claims

\* C1: after the body of an unconditional forward label branch `B L` at pc
\* (L bound to t > pc) has run, the next body to run is that of instruction
\* t, no user register written by the instructions between changes on the
\* way, and when t is the instruction count the program ends normally
\* without running another body.
C1_ForwardBranch ==
    \A j \in 1..Len(executed) :
        LET p == executed[j].pc IN
        (IsLabelBranch(p, "B") /\ Target(p) > p) =>
            /\ j < Len(executed) =>
                  /\ executed[j + 1].pc = Target(p)
                  /\ \A r \in DataRegs :
                        RegOf(executed[j + 1].mem, r) = RegOf(executed[j].mem, r)
            /\ res \in {"OK", "END"}
            /\ (j = Len(executed) /\ res = "END") =>
                  /\ Target(p) = Len(instructions)
                  /\ \A r \in DataRegs : RegOf(memory, r) = RegOf(executed[j].mem, r)

\* A forward branch over at least one instruction has run, and the body of
\* its target after it.
C1_Witness ==
    \E j \in 1..(Len(executed) - 1) :
        /\ IsLabelBranch(executed[j].pc, "B")
        /\ Target(executed[j].pc) > executed[j].pc + 1
        /\ executed[j + 1].pc = Target(executed[j].pc)

\* C2: the body of an unconditional backward label branch `B L` at pc (L
\* bound to t <= pc) adds pc - t + 1 to BJR, and the next body to run after
\* it is that of instruction t.
C2_BackwardBranch ==
    /\ \A j \in 1..Len(executed) :
          LET p == executed[j].pc IN
          (IsLabelBranch(p, "B") /\ Target(p) <= p) =>
              /\ j < Len(executed) => executed[j + 1].pc = Target(p)
              /\ res = "OK"
    /\ (AtEnd # 0 /\ IsLabelBranch(AtEnd - 1, "B") /\ Target(AtEnd - 1) <= AtEnd - 1) =>
          RegOf(memory, "BJR") =
              (RegOf(Last(executed).mem, "BJR") + (AtEnd - 1) - Target(AtEnd - 1) + 1)
                  % DataSize

\* A backward branch to an earlier instruction has run, and the body of its
\* target after it.
C2_Witness ==
    \E j \in 1..(Len(executed) - 1) :
        /\ IsLabelBranch(executed[j].pc, "B")
        /\ Target(executed[j].pc) < executed[j].pc
        /\ executed[j + 1].pc = Target(executed[j].pc)

\* The payload of instruction k has just run to the end of its guard.
Finished(k) == AtEnd = k + 1 /\ executed # <<>> /\ Last(executed).pc = k

\* Instruction k is `name a, b` with two user registers.
IsRegPair(k, name) ==
    /\ Instr(k).name = name
    /\ Len(Instr(k).operands) = 2
    /\ Instr(k).operands[1].val \in UserRegs
    /\ Instr(k).operands[2].val \in UserRegs
Op(k, n) == Instr(k).operands[n].val

\* The gate of a conditional instruction: its own code runs iff CRR was
\* nonzero at dispatch; with CRR zero no user register but PC, no jump
\* counter and no output changes; CRR is intact when the gate opens.
C3_Gate ==
    /\ (AtEnd # 0 /\ Finished(AtEnd - 1) /\ blocks[AtEnd].cond) =>
          LET old == Last(executed).mem IN
          /\ (inner > 0) <=> (RegOf(old, "CRR") # 0)
          /\ RegOf(old, "CRR") = 0 =>
                /\ \A r \in DataRegs \cup {"BJR", "FJR"} : RegOf(memory, r) = RegOf(old, r)
                /\ Len(printed) = Last(executed).nout
    /\ (AtInner # 0 /\ blocks[AtInner].cond /\ inner = 0) =>
          RegOf(memory, "CRR") = RegOf(Last(executed).mem, "CRR")

\* After GT a, b the conditional instruction that follows runs its own code
\* iff a held more than b when the GT was dispatched.
C3_AfterGT ==
    (/\ AtEnd > 1
     /\ Finished(AtEnd - 1)
     /\ blocks[AtEnd].cond
     /\ Len(executed) >= 2
     /\ executed[Len(executed) - 1].pc = AtEnd - 2
     /\ IsRegPair(AtEnd - 2, "GT")) =>
        LET old == executed[Len(executed) - 1].mem IN
        (inner > 0) <=> (RegOf(old, Op(AtEnd - 2, 1)) > RegOf(old, Op(AtEnd - 2, 2)))

\* C3: for every opcode X the body of the conditional XC executes iff CRR is
\* nonzero at dispatch; with CRR zero it changes no user register but PC, no
\* jump counter and emits nothing, and the gate leaves CRR alone; after
\* GT a, b a following conditional instruction takes effect iff a > b.
C3_ConditionalGate == C3_Gate /\ C3_AfterGT

\* C4: GT a, b, for every ordered pair of user registers, sets CRR to 1 if a
\* held more than b immediately before the instruction and to 0 otherwise,
\* and leaves a and b (when they are not CRR) as they were.
C4_GT ==
    (AtEnd # 0 /\ Finished(AtEnd - 1) /\ IsRegPair(AtEnd - 1, "GT")) =>
        LET old == Last(executed).mem
            a == Op(AtEnd - 1, 1)
            b == Op(AtEnd - 1, 2)
        IN  /\ RegOf(memory, "CRR") = (IF RegOf(old, a) > RegOf(old, b) THEN 1 ELSE 0)
            /\ a # "CRR" => RegOf(memory, a) = RegOf(old, a)
            /\ b # "CRR" => RegOf(memory, b) = RegOf(old, b)

\* The part of C4 the code keeps: operands other than CRR.
C4_GT_NoCRR ==
    (AtEnd # 0 /\ Finished(AtEnd - 1) /\ IsRegPair(AtEnd - 1, "GT")
        /\ Op(AtEnd - 1, 1) # "CRR" /\ Op(AtEnd - 1, 2) # "CRR") =>
        LET old == Last(executed).mem
        IN  /\ RegOf(memory, "CRR") =
                  (IF RegOf(old, Op(AtEnd - 1, 1)) > RegOf(old, Op(AtEnd - 1, 2))
                   THEN 1 ELSE 0)
            /\ \A r \in DataRegs \ {"CRR"} : RegOf(memory, r) = RegOf(old, r)

\* C5: ADD dst, src leaves dst = (old dst + old src) mod base (src = dst
\* included), src as it was when it is another register, and every other
\* register, scratch registers included, unchanged; ADD dst, #n leaves
\* dst = (old dst + n) mod base.
C5_Add ==
    (/\ AtEnd # 0
     /\ Finished(AtEnd - 1)
     /\ Instr(AtEnd - 1).name = "ADD"
     /\ Len(Instr(AtEnd - 1).operands) = 2
     /\ Op(AtEnd - 1, 1) \in UserRegs) =>
        LET old == Last(executed).mem
            dst == Op(AtEnd - 1, 1)
            src == Instr(AtEnd - 1).operands[2]
            added == IF src.type = "CONSTANT" THEN IntOf(src.val) ELSE RegOf(old, src.val)
        IN  /\ RegOf(memory, dst) = (RegOf(old, dst) + added) % DataSize
            /\ \A r \in Range(Registers) \ {dst} : RegOf(memory, r) = RegOf(old, r)

\* ADD R1, R1, ADD dst, src with a carry past the base, and ADD dst, #n have
\* all run to their end.
C5_Witness ==
    /\ AtEnd # 0
    /\ Finished(AtEnd - 1)
    /\ Instr(AtEnd - 1).name = "ADD"
    /\ \/ /\ IsRegPair(AtEnd - 1, "ADD")
          /\ Op(AtEnd - 1, 1) = Op(AtEnd - 1, 2)
          /\ RegOf(Last(executed).mem, Op(AtEnd - 1, 1)) = DataSize - 1
          /\ RegOf(memory, Op(AtEnd - 1, 1)) = DataSize - 2
       \/ /\ Instr(AtEnd - 1).operands[2].type = "CONSTANT"
          /\ RegOf(memory, Op(AtEnd - 1, 1)) = 0
          /\ RegOf(Last(executed).mem, Op(AtEnd - 1, 1)) = DataSize - 1

\* OUT dst has just run at index k, right after MOV dst, #n at index k - 1.
MovThenOut(k) ==
    /\ k >= 1
    /\ Finished(k)
    /\ Len(executed) >= 2
    /\ executed[Len(executed) - 1].pc = k - 1
    /\ Instr(k).name = "OUT"
    /\ Len(Instr(k).operands) = 1
    /\ Instr(k - 1).name = "MOV"
    /\ Len(Instr(k - 1).operands) = 2
    /\ Op(k - 1, 1) = Op(k, 1)
    /\ Op(k, 1) \in UserRegs
    /\ Instr(k - 1).operands[2].type = "CONSTANT"
    /\ IntOf(Op(k - 1, 2)) \in Values

\* The OUT of MovThenOut has printed exactly v and changed no cell.
Outputs(v) ==
    /\ Len(printed) = Last(executed).nout + 1
    /\ Last(printed) = v
    /\ memory = Last(executed).mem

\* C6 as stated: for every user register dst, PC included, MOV dst, #n then
\* OUT dst outputs exactly n, whatever dst held, and OUT changes no cell.
C6_MovOut_Stated ==
    (AtEnd # 0 /\ MovThenOut(AtEnd - 1)) => Outputs(IntOf(Op(AtEnd - 2, 2)))

\* C6: for every user register dst but PC, MOV dst, #n then OUT dst outputs
\* exactly n, whatever dst held; for PC the OUT outputs its own instruction
\* index; in both cases the OUT changes no cell.
C6_MovOut ==
    (AtEnd # 0 /\ MovThenOut(AtEnd - 1)) =>
        Outputs(IF Op(AtEnd - 1, 1) = "PC" THEN AtEnd - 1 ELSE IntOf(Op(AtEnd - 2, 2)))

\* A register that held base - 1 was moved 1 and printed as 1.
C6_Witness ==
    /\ AtEnd = 3
    /\ MovThenOut(2)
    /\ Op(2, 1) # "PC"
    /\ RegOf(executed[2].mem, Op(2, 1)) = DataSize - 1
    /\ printed = <<1>>

\* C8: B r at index pc with r holding t in 0..instruction count behaves as
\* B L with L bound to t: the next body to run is that of instruction t
\* (the program ends when t is the instruction count), for t above, at and
\* below pc, and r keeps its value.
C8_RegisterBranch ==
    \A j \in 1..Len(executed) :
        LET p == executed[j].pc
            r == Op(p, 1)
            t == RegOf(executed[j].mem, r)
        IN  (/\ Instr(p).name = "B"
             /\ Len(Instr(p).operands) = 1
             /\ r \in UserRegs
             /\ t <= Len(instructions)) =>
                /\ res \in {"OK", "END"}
                /\ j < Len(executed) =>
                      /\ executed[j + 1].pc = t
                      /\ r # "PC" => RegOf(executed[j + 1].mem, r) = t
                /\ (j = Len(executed) /\ res = "END") => t = Len(instructions)

\* The cases of C8 the code keeps: a target other than the branch's own index.
C8_RegisterBranch_Elsewhere ==
    \A j \in 1..Len(executed) :
        LET p == executed[j].pc
            r == Op(p, 1)
            t == RegOf(executed[j].mem, r)
        IN  (/\ Instr(p).name = "B"
             /\ Len(Instr(p).operands) = 1
             /\ r \in UserRegs
             /\ t <= Len(instructions)
             /\ t # p) =>
                /\ res \in {"OK", "END"}
                /\ j < Len(executed) =>
                      /\ executed[j + 1].pc = t
                      /\ r # "PC" => RegOf(executed[j + 1].mem, r) = t
                /\ (j = Len(executed) /\ res = "END") => t = Len(instructions)

\* A step from a to b other than to the next instruction is made by a label
\* branch, and by BC only when CRR was nonzero.
Follows(j) ==
    LET a == executed[j].pc
        b == executed[j + 1].pc
    IN  /\ a < b
        /\ b # a + 1 =>
              \/ IsLabelBranch(a, "B")
              \/ IsLabelBranch(a, "BC") /\ RegOf(executed[j].mem, "CRR") # 0

\* No fault; bodies run in source order from instruction 0, each at most
\* once, none left out but behind a forward branch; at the end the last
\* instruction has run unless a branch led past it.
C7_InOrder ==
    /\ res \in {"OK", "END"}
    /\ \A j \in 1..(Len(executed) - 1) : Follows(j)
    /\ executed # <<>> => executed[1].pc = 0
    /\ res = "END" =>
          /\ executed # <<>>
          /\ Last(executed).pc # Len(instructions) - 1 =>
                Instr(Last(executed).pc).name \in {"B", "BC"}

DefinedTwice(name) ==
    \E i, j \in 1..Len(tokens) :
        /\ i < j
        /\ tokens[i] = [type |-> "LABEL", value |-> name]
        /\ tokens[j] = tokens[i]

\* The index a definition of the label at token k gives it: the number of
\* instructions that begin before it.
StartsInstruction(k) ==
    /\ tokens[k].type = "WORD"
    /\ k = 1 \/ tokens[k - 1].type \in {"NEWLINE", "LABEL"}
IndexAt(k) == Cardinality({m \in 1..(k - 1) : StartsInstruction(m)})

\* C9: a source that defines a label name more than once fails in the parser
\* with a duplicate-label error and nothing is produced for it, so every
\* label of a table that reaches the assembler has one definition and is
\* bound to its index.
C9_DuplicateLabel ==
    stage # "parser" =>
        /\ (\E t \in Range(tokens) : t.type = "LABEL" /\ DefinedTwice(t.value)) =>
              /\ stage = "exit"
              /\ error = "exit: Duplicate label"
              /\ instructions = <<>> /\ labels = <<>> /\ bf = <<>>
        /\ stage # "exit" =>
              \A name \in DOMAIN labels :
                  /\ ~DefinedTwice(name)
                  /\ \A k \in 1..Len(tokens) :
                        tokens[k] = [type |-> "LABEL", value |-> name] =>
                            labels[name].ip = IndexAt(k)

\* Instruction k is a branch whose operand is no user register and no label.
UndefinedBranch(k) ==
    /\ Instr(k).name \in {"B", "BC"}
    /\ Len(Instr(k).operands) = 1
    /\ Op(k, 1) \notin UserRegs
    /\ Op(k, 1) \notin DOMAIN labels

\* Instruction k compiles.
Valid(k) == AssembleOne(Instr(k), labels, k).err = ""

\* C10: when a B or BC at any position has an operand that is neither a user
\* register nor a label of the table (the instructions before it being
\* valid), assembly ends with an undefined-label error and writes nothing,
\* the blocks of the instructions before it included.
C10_UndefinedLabel ==
    (/\ stage \notin {"parser", "assemble"}
     /\ \E k \in 0..(Len(instructions) - 1) :
           UndefinedBranch(k) /\ \A j \in 0..(k - 1) : Valid(j)) =>
        /\ stage = "exit"
        /\ error = "exit: Undefined label"
        /\ bf = <<>>

\* Assembly has ended on an undefined label that valid instructions precede.
C10_Witness ==
    /\ stage = "exit"
    /\ error = "exit: Undefined label"
    /\ bf = <<>>
    /\ \E k \in 1..(Len(instructions) - 1) :
          UndefinedBranch(k) /\ \A j \in 0..(k - 1) : Valid(j)

\* The text of a constant is hexadecimal: "0x" and digits.
IsHexText(val) ==
    /\ Len(val) >= 3
    /\ val[1] = "0" /\ val[2] = "x"
    /\ \A k \in 3..Len(val) : val[k] \in Range(HexDigits)

\* The value of the first n characters of a hexadecimal text.
RECURSIVE HexVal(_, _)
HexVal(val, n) ==
    IF n <= 2 THEN 0
    ELSE 16 * HexVal(val, n - 1)
         + (CHOOSE d \in 0..15 : HexDigits[d + 1] = val[n])

\* The decimal text of n.
RECURSIVE DecText(_)
DecText(n) == IF n < 10 THEN <<Digits[n + 1]>> ELSE DecText(n \div 10) \o <<Digits[(n % 10) + 1]>>

IsHexOperand(op) == op.type = "CONSTANT" /\ IsHexText(op.val)

\* The instruction list with every hexadecimal constant written in decimal.
InDecimal(ins) ==
    [k \in 1..Len(ins) |->
        [ins[k] EXCEPT !.operands =
            [j \in 1..Len(ins[k].operands) |->
                IF IsHexOperand(ins[k].operands[j])
                THEN [ins[k].operands[j] EXCEPT
                        !.val = DecText(HexVal(ins[k].operands[j].val,
                                               Len(ins[k].operands[j].val)))]
                ELSE ins[k].operands[j]]]]

\* C11: ADD and MOV with a constant written #0xH are accepted by the parser
\* and the compilers and generate the text that the same program with the
\* decimal constant of equal value generates.
C11_HexConstant ==
    (/\ stage \notin {"parser", "assemble"}
     /\ \E k \in 1..Len(instructions) :
           /\ instructions[k].name \in {"ADD", "MOV"}
           /\ \E j \in 1..Len(instructions[k].operands) :
                 IsHexOperand(instructions[k].operands[j])) =>
        /\ error = ""
        /\ bf = assemble(InDecimal(instructions), labels).text

\* The number of operands the opcode takes.
Arity(name) == IF name = "OUT" THEN 1 ELSE 2

\* Instruction k, of the opcode op, has a wrong number of operands or names
\* a compiler-internal register.
BadOperands(k, op) ==
    /\ Instr(k).name = op
    /\ \/ Len(Instr(k).operands) # Arity(op)
       \/ \E j \in 1..Len(Instr(k).operands) :
             /\ Instr(k).operands[j].type = "REFERENCE"
             /\ Instr(k).operands[j].val \in Range(IRegisters)

\* Assembly ends in an error, with nothing generated, when the first
\* instruction that does not compile as it should is of the opcode op.
Rejects(op) ==
    (/\ stage \notin {"parser", "assemble"}
     /\ \E k \in 0..(Len(instructions) - 1) :
           BadOperands(k, op) /\ \A j \in 0..(k - 1) : Valid(j)) =>
        /\ stage = "exit"
        /\ error # ""
        /\ bf = <<>>

\* C12: for each of ADD, MOV, OUT and GT an instruction whose operand count
\* is not the opcode's arity, or whose register operand is a
\* compiler-internal register, fails with an error and generates no code.
C12_OperandValidation == \A op \in {"ADD", "MOV", "OUT", "GT"} : Rejects(op)

\* The part of C12 the code keeps: ADD, MOV and OUT.
C12_OperandValidation_NoGT == \A op \in {"ADD", "MOV", "OUT"} : Rejects(op)

\* The machine is about to run an instruction that uses the active cell.
UsesCell ==
    /\ stage = "run"
    /\ res = "OK"
    /\ pc >= 0 /\ pc < Len(program)
    /\ program[pc + 1].i \in {"ADD", "JZ", "OUT"}

\* C13: a step that reads or writes the active cell (ADD, the loop test JZ,
\* OUT) with the memory pointer outside 0..memory_size-1 returns a fault
\* status, not OK or END, and changes no cell.
C13_Faults ==
    (UsesCell /\ (mp < 0 \/ mp >= MemorySize)) =>
        /\ step.res \in {"SEGFAULT", "BUSFAULT"}
        /\ step.memory = memory

\* The part of C13 the code keeps: ADD.
C13_Faults_Add ==
    (UsesCell /\ program[pc + 1].i = "ADD" /\ (mp < 0 \/ mp >= MemorySize)) =>
        /\ step.res = "SEGFAULT"
        /\ step.memory = memory

\* The machine has run the text to its end with the pointer on reg.
EndedOn(text, reg) == res = "END" /\ bf = text /\ mp = address_of(reg)

\* C16: with the pointer on a and TR1..TR5 zero, gt_setup(a, b) then gt()
\* leaves TR1 = 1 if a > b and 0 otherwise, for all pairs of values, leaves
\* a and b unchanged and TR2..TR5 zero, and ends with the pointer on TR1.
C16_GreaterThan ==
    res = "END" =>
        \A p \in GtPairs, x, y \in Values :
            bf = GtText(p[1], p[2], x, y) =>
                /\ mp = address_of("TR1")
                /\ RegOf(memory, "TR1") = (IF x > y THEN 1 ELSE 0)
                /\ RegOf(memory, p[1]) = x
                /\ RegOf(memory, p[2]) = y
                /\ \A r \in {"TR2", "TR3", "TR4", "TR5"} : RegOf(memory, r) = 0

\* The comparison has run for a > b, for a = b and for a < b.
C16_Witness ==
    \E p \in GtPairs, x, y \in Values :
        /\ EndedOn(GtText(p[1], p[2], x, y), "TR1")
        /\ x = DataSize - 1 /\ y = DataSize - 2
        /\ RegOf(memory, "TR1") = 1

\* C17 as stated: cp(src, dst, scratch) leaves src unchanged, dst at src's
\* value and scratch at zero, the pointer on src, for every src value and
\* whatever dst and scratch held before.
C17_Copy_Stated ==
    res = "END" =>
        \A t \in CpTriples, x \in Values, d, s \in Held :
            bf = CpText(t[1], t[2], t[3], x, d, s) =>
                /\ mp = address_of(t[1])
                /\ RegOf(memory, t[1]) = x
                /\ RegOf(memory, t[2]) = x
                /\ RegOf(memory, t[3]) = 0

\* C17: cp(src, dst, scratch) started with dst and scratch at zero leaves
\* src unchanged, dst at src's value and scratch at zero, and the pointer
\* on src, for every src value.
C17_Copy ==
    res = "END" =>
        \A t \in CpTriples, x \in Values :
            bf = CpText(t[1], t[2], t[3], x, 0, 0) =>
                /\ mp = address_of(t[1])
                /\ RegOf(memory, t[1]) = x
                /\ RegOf(memory, t[2]) = x
                /\ RegOf(memory, t[3]) = 0

\* A copy of the largest value into a zero register has run.
C17_Witness ==
    \E t \in CpTriples :
        /\ EndedOn(CpText(t[1], t[2], t[3], DataSize - 1, 0, 0), t[1])
        /\ RegOf(memory, t[2]) = DataSize - 1

\* C18: inot(src, dst) with dst = 0 writes 1 into dst if src is 0 and 0
\* otherwise, and leaves src at the value it had, for every src value.
C18_Not ==
    res = "END" =>
        \A p \in InotPairs, x \in Values :
            bf = InotText(p[1], p[2], x) =>
                /\ RegOf(memory, p[2]) = (IF x = 0 THEN 1 ELSE 0)
                /\ RegOf(memory, p[1]) = x

\* What inot does: dst as C18 says, src left at zero.
C18_Not_Result ==
    res = "END" =>
        \A p \in InotPairs, x \in Values :
            bf = InotText(p[1], p[2], x) =>
                /\ mp = address_of(p[1])
                /\ RegOf(memory, p[2]) = (IF x = 0 THEN 1 ELSE 0)
                /\ RegOf(memory, p[1]) = 0

\* C19: for every signed n the text of inc(n) changes the active cell from
\* v to (v + n) mod base and does not move the pointer.
C19_Increment ==
    res = "END" =>
        \A v \in Values, n \in Increments :
            bf = IncText(v, n) =>
                /\ mp = address_of("R1")
                /\ RegOf(memory, "R1") = (v + n) % DataSize

\* The part of C19 the code keeps: n not negative.
C19_Increment_NotNegative ==
    res = "END" =>
        \A v \in Values, n \in Increments :
            (n >= 0 /\ bf = IncText(v, n)) =>
                /\ mp = address_of("R1")
                /\ RegOf(memory, "R1") = (v + n) % DataSize

\* Where the envelope of block k (of instruction k - 1) starts in the text:
\* the first character of its set phase.  It ends where the next starts,
\* the last one at the end of the text.
EnvStart(k) == blocks[k].start - Len(FjumpOpen) - Len(set_pc(k - 1))
Boundaries == {EnvStart(k) : k \in 1..Len(blocks)}

\* The machine instruction about to run spans the text position q: compile
\* merged the moves before and after q into it.
Passing(q) ==
    /\ stage = "run"
    /\ pc < Len(program)
    /\ program[pc + 1].bfp <= q
    /\ q < (IF pc + 1 < Len(program) THEN program[pc + 2].bfp ELSE Len(bf))

\* The moves of the text from position from up to position to (0-based).
Net(from, to) ==
    Cardinality({i \in from..(to - 1) : bf[i + 1] = ">"})
        - Cardinality({i \in from..(to - 1) : bf[i + 1] = "<"})

\* Where the pointer is when the run passes text position q.
PointerAt(q) == mp + Net(program[pc + 1].bfp, q)

\* C14: running the code of a program of valid instructions over user
\* registers, the pointer is on FJR at the start and at the end of every
\* instruction's envelope, whether its body ran or was skipped and whether
\* or not the block is re-entered after a backward jump.
C14_PointerOnFJR ==
    /\ \A q \in Boundaries : Passing(q) => PointerAt(q) = address_of("FJR")
    /\ (stage = "run" /\ res = "END") => mp = address_of("FJR")

\* After a backward jump re-entered block 0 and its body ran again, the run
\* passes the end of its envelope, the start of the next.
C14_Witness ==
    /\ Len(blocks) > 1
    /\ Passing(EnvStart(2))
    /\ Len(executed) >= 3
    /\ Last(executed).pc = 0
    /\ PointerAt(EnvStart(2)) = address_of("FJR")

\* C15: whenever the body of the instruction of index i starts, on the first
\* pass or after any forward or backward jump, PC holds i and FJR holds
\* zero; no body starts while FJR is nonzero.
C15_BlockIdentity ==
    AtStart # 0 =>
        /\ RegOf(memory, "PC") = AtStart - 1
        /\ RegOf(memory, "FJR") = 0

\* A body starts again after a backward jump from a later instruction.
C15_Witness ==
    /\ AtStart # 0
    /\ executed # <<>>
    /\ Last(executed).pc > AtStart - 1
    /\ RegOf(memory, "PC") = AtStart - 1

ScratchRegs == {"IC", "TR1", "TR2", "TR3", "TR4", "TR5"}

\* C20: in the run of a program of valid instructions over user registers,
\* IC and TR1..TR5 hold zero at the end (and start) of every instruction's
\* envelope, after whatever blocks were executed, skipped or re-executed.
C20_ScratchClean ==
    /\ \A q \in Boundaries :
          Passing(q) => \A r \in ScratchRegs : RegOf(memory, r) = 0
    /\ (stage = "run" /\ res = "END") => \A r \in ScratchRegs : RegOf(memory, r) = 0

\* The envelope of a register branch that jumped forward past the next
\* instruction has ended.
C20_Witness ==
    \E k \in 2..Len(blocks) :
        /\ Passing(EnvStart(k))
        /\ executed # <<>>
        /\ Last(executed).pc = k - 2
        /\ Instr(k - 2).name = "B"
        /\ Op(k - 2, 1) \in UserRegs
        /\ RegOf(memory, "FJR") > 0

\* The payload entered last is that of a conditional instruction.
InConditional ==
    /\ stage = "run"
    /\ executed # <<>>
    /\ blocks[Last(executed).pc + 1].cond

\* C21: each time a conditional instruction XC is dispatched the body of X
\* executes at most once, for every value of CRR, values above 1 included.
C21_AtMostOnce == InConditional => inner <= 1

\* What the gate does: the body of X executes as many times as CRR held at
\* dispatch, so at most once when CRR held 0 or 1.
C21_CRRTimes ==
    /\ InConditional => inner <= RegOf(Last(executed).mem, "CRR")
    /\ (InConditional /\ AtEnd # 0 /\ Finished(AtEnd - 1)) =>
          inner = RegOf(Last(executed).mem, "CRR")

\* The token of the k-th instruction's mnemonic (k from 1) and the newline
\* that ends its line.
MnemonicOf(k) ==
    CHOOSE m \in 1..Len(tokens) : StartsInstruction(m) /\ IndexAt(m) = k - 1
LineEnd(m) ==
    CHOOSE e \in m..Len(tokens) :
        /\ tokens[e].type = "NEWLINE"
        /\ \A j \in m..(e - 1) : tokens[j].type # "NEWLINE"

\* The operands written between the mnemonic at token m and the end of its
\* line, in order, as the parser represents an operand.
IsOperandToken(t) == t.type \in {"WORD", "ADDRESS", "CONSTANT"}
OwnOperands(m) ==
    LET ops == SelectSeq(SubSeq(tokens, m + 1, LineEnd(m) - 1), IsOperandToken)
    IN  [i \in 1..Len(ops) |->
            [val |-> ops[i].value,
             type |-> IF ops[i].type = "WORD" THEN "REFERENCE" ELSE ops[i].type]]

\* Every label of the table is bound to the number of instructions completed
\* before its definition.
LabelsBound ==
    \A k \in 1..Len(tokens) :
        tokens[k].type = "LABEL" =>
            /\ tokens[k].value \in DOMAIN labels
            /\ labels[tokens[k].value].ip = IndexAt(k)

\* C22: each instruction the parser appends carries exactly the operands
\* written between its mnemonic and the following newline, in order (none
\* when it is written without operands, whatever was parsed before it), and
\* each label is bound to the number of instructions completed before its
\* definition.
C22_OwnOperands ==
    (stage # "parser" /\ error \notin {"exit: Unexpected token", "exit: Duplicate label"}) =>
        /\ \A k \in 1..Len(instructions) :
              /\ instructions[k].name = tokens[MnemonicOf(k)].value
              /\ instructions[k].operands = OwnOperands(MnemonicOf(k))
        /\ LabelsBound

\* What the parser does: an instruction written with operands carries its
\* own, one written without operands carries those of the instruction
\* before it (none when it is the first), and the labels are bound as stated.
C22_Inherited ==
    (stage # "parser" /\ error \notin {"exit: Unexpected token", "exit: Duplicate label"}) =>
        /\ \A k \in 1..Len(instructions) :
              /\ instructions[k].name = tokens[MnemonicOf(k)].value
              /\ instructions[k].operands =
                    IF OwnOperands(MnemonicOf(k)) # <<>> \/ k = 1
                    THEN OwnOperands(MnemonicOf(k))
                    ELSE instructions[k - 1].operands
        /\ LabelsBound

====
